---- MODULE Spec2Model ----
(***************************************************************************)
(* Model of src/src/echo.py: a script that prints its argument vector,     *)
(* splits the arguments after the program name into flags and values, and  *)
(* prints the values joined by a separator chosen by '-s' and terminated   *)
(* as chosen by '-n'.                                                       *)
(*                                                                         *)
(* A Python str is modelled as a sequence of one-character strings, so     *)
(* that startswith, join and token equality are computed, not assumed.     *)
(***************************************************************************)
EXTENDS Naturals, Sequences, FiniteSets

\* ---------------------------------------------------------------- bounds
MaxArgs == 4

\* ------------------------------------------------------------ characters
SP == " "
NL == "\n"
DASH == "-"

\* The tokens an argument is drawn from: the empty string, plain values,
\* a value with an inner dash, the two recognized flags, and flag-like
\* tokens that merely resemble them.
Tokens ==
    { <<>>, <<"a">>, <<"b">>, <<"a", "-", "s">>,
      <<"-">>, <<"-", "n">>, <<"-", "s">>, <<"-", "s", "n">>, <<"-", "-", "s">> }

\* sys.argv[0]: the name the script was invoked under.
ProgNames ==
    { <<"e", "c", "h", "o", ".", "p", "y">>,
      <<".", "/", "e", "c", "h", "o", ".", "p", "y">> }

RECURSIVE SeqsUpTo(_, _)
SeqsUpTo(S, n) ==
    IF n = 0 THEN { <<>> }
    ELSE LET shorter == SeqsUpTo(S, n - 1)
         IN  shorter \cup { Append(s, x) : s \in shorter, x \in S }

ArgLists == SeqsUpTo(Tokens, MaxArgs)

VARIABLES argv, pc, flags, args, sep, end, stdout, prevArgv, prevOut

vars == <<argv, pc, flags, args, sep, end, stdout, prevArgv, prevOut>>

\* ------------------------------------------------------- pure functions

\* mutant: the prefix may stand anywhere in the string
startswith_anywhere(s, prefix) ==
    \E i \in 1..Len(s) :
        /\ i + Len(prefix) - 1 <= Len(s)
        /\ SubSeq(s, i, i + Len(prefix) - 1) = prefix

\* str.startswith(prefix)
startswith(s, prefix) ==
    /\ Len(s) >= Len(prefix)
    /\ SubSeq(s, 1, Len(prefix)) = prefix

\* x in list
Contains(list, x) == \E i \in 1..Len(list) : list[i] = x

\* separator.join(list)
RECURSIVE join(_, _)
join(separator, list) ==
    IF list = <<>> THEN <<>>
    ELSE IF Len(list) = 1 THEN list[1]
    ELSE list[1] \o separator \o join(separator, Tail(list))

\* the for loop of split_args, with its two accumulators
RECURSIVE split_loop(_, _, _)
split_loop(as, fl, rest) ==
    IF as = <<>> THEN <<fl, rest>>
    ELSE IF startswith(Head(as), <<DASH>>)
         THEN split_loop(Tail(as), Append(fl, Head(as)), rest)
         ELSE split_loop(Tail(as), fl, Append(rest, Head(as)))

\* mutant: each flag is put in front of the flags found so far
RECURSIVE split_loop_prepend(_, _, _)
split_loop_prepend(as, fl, rest) ==
    IF as = <<>> THEN <<fl, rest>>
    ELSE IF startswith(Head(as), <<DASH>>)
         THEN split_loop_prepend(Tail(as), <<Head(as)>> \o fl, rest)
         ELSE split_loop_prepend(Tail(as), fl, Append(rest, Head(as)))

split_args_prepend(as) == split_loop_prepend(as, <<>>, <<>>)

\* mutant: only '-n' and '-s' are taken as flags
RECURSIVE split_loop_known(_, _, _)
split_loop_known(as, fl, rest) ==
    IF as = <<>> THEN <<fl, rest>>
    ELSE IF Head(as) = <<"-", "n">> \/ Head(as) = <<"-", "s">>
         THEN split_loop_known(Tail(as), Append(fl, Head(as)), rest)
         ELSE split_loop_known(Tail(as), fl, Append(rest, Head(as)))

split_args_known(as) == split_loop_known(as, <<>>, <<>>)

\* mutant: flags are recognized only before the first value
RECURSIVE split_loop_leading(_, _, _)
split_loop_leading(as, fl, rest) ==
    IF as = <<>> THEN <<fl, rest>>
    ELSE IF startswith(Head(as), <<DASH>>)
         THEN split_loop_leading(Tail(as), Append(fl, Head(as)), rest)
         ELSE <<fl, rest \o as>>

split_args_leading(as) == split_loop_leading(as, <<>>, <<>>)

split_args(as) == split_loop(as, <<>>, <<>>)

\* mutant: any flag beginning with '-s' switches the separator off
sepOf_prefix(fl) ==
    IF \E i \in 1..Len(fl) : startswith(fl[i], <<"-", "s">>) THEN <<>> ELSE <<SP>>

\* sep = '' if '-s' in flags else ' '
sepOf(fl) == IF Contains(fl, <<"-", "s">>) THEN <<>> ELSE <<SP>>

\* mutant: '-s' switches the terminator off as well
endOf_tied(fl) ==
    IF Contains(fl, <<"-", "n">>) \/ Contains(fl, <<"-", "s">>) THEN <<>> ELSE <<NL>>

\* mutant: the two branches exchanged
endOf_inverted(fl) == IF Contains(fl, <<"-", "n">>) THEN <<NL>> ELSE <<>>

\* end = '' if '-n' in flags else '\n'
endOf(fl) == IF Contains(fl, <<"-", "n">>) THEN <<>> ELSE <<NL>>

\* print(x, end=e): one write of x followed by e
printed(x, e) == x \o e

\* the formatted line of an argument list: lines 24-27 as one function
FormattedLine(as) ==
    LET fa == split_args(as)
    IN  printed(join(sepOf(fa[1]), fa[2]), endOf(fa[1]))

\* ---------------------------------------------------------------- state

Init ==
    /\ \E name \in ProgNames, as \in ArgLists : argv = <<name>> \o as
    /\ pc = "print_raw"
    /\ flags = <<>>
    /\ args = <<>>
    /\ sep = <<>>
    /\ end = <<>>
    /\ stdout = <<>>
    /\ prevArgv = <<>>
    /\ prevOut = <<>>

\* mutant: the raw line leaves out sys.argv[0]
PrintRaw_skipName ==
    /\ pc = "print_raw"
    /\ stdout' = Append(stdout, printed(join(<<SP>>, Tail(argv)), <<NL>>))
    /\ pc' = "split"
    /\ UNCHANGED <<argv, flags, args, sep, end, prevArgv, prevOut>>

\* print(' '.join(sys.argv))
PrintRaw ==
    /\ pc = "print_raw"
    /\ stdout' = Append(stdout, printed(join(<<SP>>, argv), <<NL>>))
    /\ pc' = "split"
    /\ UNCHANGED <<argv, flags, args, sep, end, prevArgv, prevOut>>

\* mutant: the whole of sys.argv is classified
Classify_noSlice ==
    /\ pc = "split"
    /\ LET fa == split_args(argv)
       IN  /\ flags' = fa[1]
           /\ args' = fa[2]
    /\ pc' = "sep"
    /\ UNCHANGED <<argv, sep, end, stdout, prevArgv, prevOut>>

\* flags, args = split_args(sys.argv[1:])
Classify ==
    /\ pc = "split"
    /\ LET fa == split_args(Tail(argv))
       IN  /\ flags' = fa[1]
           /\ args' = fa[2]
    /\ pc' = "sep"
    /\ UNCHANGED <<argv, sep, end, stdout, prevArgv, prevOut>>

SetSep ==
    /\ pc = "sep"
    /\ sep' = sepOf(flags)
    /\ pc' = "end"
    /\ UNCHANGED <<argv, flags, args, end, stdout, prevArgv, prevOut>>

SetEnd ==
    /\ pc = "end"
    /\ end' = endOf(flags)
    /\ pc' = "print_fmt"
    /\ UNCHANGED <<argv, flags, args, sep, stdout, prevArgv, prevOut>>

\* mutant: the formatted line comes out ahead of the raw line
PrintFormatted_first ==
    /\ pc = "print_fmt"
    /\ stdout' = <<printed(join(sep, args), end)>> \o stdout
    /\ pc' = "done"
    /\ UNCHANGED <<argv, flags, args, sep, end, prevArgv, prevOut>>

\* print(sep.join(args), end=end)
PrintFormatted ==
    /\ pc = "print_fmt"
    /\ stdout' = Append(stdout, printed(join(sep, args), end))
    /\ pc' = "done"
    /\ UNCHANGED <<argv, flags, args, sep, end, prevArgv, prevOut>>

\* A further invocation of the script: a fresh process, so every module
\* level name and the output stream start anew.  The argument list is the
\* previous one or the previous one without its first argument, under any
\* invocation name.  prevArgv and prevOut record the finished run.
Rerun ==
    /\ pc = "done"
    /\ \E name \in ProgNames,
          as \in { Tail(argv) } \cup
                 { Tail(Tail(argv)) : x \in { y \in {1} : Len(argv) > 1 } } :
            argv' = <<name>> \o as
    /\ prevArgv' = argv
    /\ prevOut' = stdout
    /\ pc' = "print_raw"
    /\ flags' = <<>>
    /\ args' = <<>>
    /\ sep' = <<>>
    /\ end' = <<>>
    /\ stdout' = <<>>

Next ==
    \/ PrintRaw
    \/ Classify
    \/ SetSep
    \/ SetEnd
    \/ PrintFormatted

Spec == Init /\ [][Next]_vars

NextRerun ==
    \/ PrintRaw
    \/ Classify
    \/ SetSep
    \/ SetEnd
    \/ PrintFormatted
    \/ Rerun

SpecRerun == Init /\ [][NextRerun]_vars

\* ------------------------------------------------------------ properties

\* RawArguments: the arguments after the program's invocation name
RawArguments == Tail(argv)

Written1 == pc # "print_raw"
Classified == pc \in {"sep", "end", "print_fmt", "done"}
Finished == pc = "done"

FlagN == <<"-", "n">>
FlagS == <<"-", "s">>

\* the flag pattern as the specification words it
BeginsWithDash(t) == t # <<>> /\ t[1] = DASH
NotBeginsWithDash(t) == ~BeginsWithDash(t)

Occurs(t, list) == \E i \in 1..Len(list) : list[i] = t

\* C1 (as claimed): once the first write has happened, it is RawArguments,
\* without the invocation name, joined by single spaces plus a terminator.
C1_FirstLineExcludesName ==
    Written1 => stdout[1] = join(<<SP>>, RawArguments) \o <<NL>>

\* C1 (amended): the first write is the whole argument vector, the
\* invocation name first and then RawArguments, joined by single spaces and
\* followed by one line terminator, whatever flags are present.
C1_FirstLineIsArgv ==
    Written1 =>
        /\ stdout[1] = join(<<SP>>, <<argv[1]>> \o RawArguments) \o <<NL>>
        /\ (RawArguments # <<>> =>
                stdout[1] = argv[1] \o <<SP>> \o join(<<SP>>, RawArguments) \o <<NL>>)

C1_Witness ==
    /\ Written1
    /\ RawArguments = <<FlagN, <<"a">>, <<"b">>>>
    /\ stdout[1] = argv[1] \o <<SP, "-", "n", SP, "a", SP, "b", NL>>

\* C2: after classification a string of the input is in flags iff it is
\* non-empty and its first character is '-', and in the values otherwise
\* (the empty string included); the empty input gives two empty sequences.
C2_ClassificationRule ==
    Classified =>
        /\ \A i \in 1..Len(RawArguments) :
              LET t == RawArguments[i] IN
                /\ Occurs(t, flags) <=> BeginsWithDash(t)
                /\ Occurs(t, args) <=> ~BeginsWithDash(t)
        /\ (RawArguments = <<>> => flags = <<>> /\ args = <<>>)

C2_Witness ==
    /\ Classified
    /\ Occurs(<<>>, RawArguments) /\ Occurs(<<>>, args)
    /\ Occurs(<<DASH>>, RawArguments) /\ Occurs(<<DASH>>, flags)
    /\ Occurs(<<"a", "-", "s">>, args)

InFlags(t) == Occurs(t, flags)
NotInFlags(t) == ~Occurs(t, flags)

\* C3: (flags, args) is a stable partition of the input: the lengths add
\* up, every string of the input is in exactly one of the two, and each of
\* the two is the input restricted to its strings, in order, duplicates kept.
C3_StablePartition ==
    Classified =>
        /\ Len(flags) + Len(args) = Len(RawArguments)
        /\ \A i \in 1..Len(RawArguments) :
              Occurs(RawArguments[i], flags) # Occurs(RawArguments[i], args)
        /\ flags = SelectSeq(RawArguments, InFlags)
        /\ args = SelectSeq(RawArguments, NotInFlags)

C3_Witness ==
    /\ Classified
    /\ RawArguments = <<FlagN, <<"a">>, FlagS, <<"b">>>>
    /\ flags = <<FlagN, FlagS>>
    /\ args = <<<<"a">>, <<"b">>>>

C3_WitnessDuplicates ==
    /\ Classified
    /\ RawArguments = <<FlagS, <<"a">>, FlagS, <<"a">>>>
    /\ flags = <<FlagS, FlagS>>

\* C4: the separator is the empty string iff some argument is exactly
\* '-s', and one space otherwise; the formatted write joins with it.
C4_SeparatorRule ==
    /\ (pc \in {"end", "print_fmt", "done"} =>
           sep = IF Occurs(FlagS, RawArguments) THEN <<>> ELSE <<SP>>)
    /\ (Finished /\ Len(args) = 2 =>
           Len(stdout[2]) = Len(args[1]) + Len(args[2]) + Len(end)
                            + IF Occurs(FlagS, RawArguments) THEN 0 ELSE 1)

C4_Witness ==
    /\ Finished
    /\ Occurs(<<"-", "s", "n">>, flags)
    /\ Occurs(<<"-", "-", "s">>, flags)
    /\ args = <<<<"a">>, <<"b">>>>
    /\ stdout[2] = <<"a", SP, "b", NL>>

\* C5: the formatted write is the values joined by the separator, followed
\* by one line terminator iff no argument is exactly '-n'; the choice of
\* terminator does not depend on the choice of separator.
C5_TerminatorRule ==
    Finished =>
        stdout[2] = join(IF Occurs(FlagS, RawArguments) THEN <<>> ELSE <<SP>>, args)
                    \o (IF Occurs(FlagN, RawArguments) THEN <<>> ELSE <<NL>>)

C5_Witness ==
    /\ Finished
    /\ RawArguments = <<FlagN, FlagS, <<"a">>, <<"b">>>>
    /\ stdout[2] = <<"a", "b">>

\* C6: the raw line is written first, classification and the choice of
\* separator and terminator happen after it, the formatted line is written
\* last, and a finished run has written exactly twice.
C6_TwoWritesInOrder ==
    /\ (pc = "print_raw" => stdout = <<>>)
    /\ (pc \in {"split", "sep", "end", "print_fmt"} =>
           /\ Len(stdout) = 1
           /\ stdout[1] = join(<<SP>>, argv) \o <<NL>>)
    /\ (pc \in {"print_raw", "split"} => flags = <<>> /\ args = <<>>)
    /\ (Finished =>
           /\ Len(stdout) = 2
           /\ stdout[1] = join(<<SP>>, argv) \o <<NL>>
           /\ stdout[2] = join(sep, args) \o end)

C6_Witness ==
    /\ Finished
    /\ Len(stdout) = 2
    /\ flags # <<>>
    /\ args # <<>>
    /\ stdout[1] # stdout[2]

Recognized(t) == t = FlagN \/ t = FlagS
RecognizedOrValue(t) == Recognized(t) \/ ~BeginsWithDash(t)

\* C7: the formatted write of an argument list equals the formatted line of
\* the same list without its flag tokens other than '-n' and '-s'.
C7_UnrecognizedFlagsIgnored ==
    Finished =>
        stdout[2] = FormattedLine(SelectSeq(RawArguments, RecognizedOrValue))

C7_Witness ==
    /\ Finished
    /\ Occurs(<<"-", "s", "n">>, RawArguments)
    /\ Occurs(<<DASH>>, RawArguments)
    /\ ~Occurs(FlagS, RawArguments)
    /\ Len(args) = 2
    /\ SelectSeq(RawArguments, RecognizedOrValue) # RawArguments

\* C8 (as claimed): with zero arguments both writes are a lone terminator.
C8_ZeroArgsTwoEmptyLines ==
    Finished /\ RawArguments = <<>> => stdout = << <<NL>>, <<NL>> >>

\* C8 (amended): with zero arguments the first write is the invocation
\* name followed by one line terminator, and the formatted write is an
\* empty line.
C8_ZeroArgsNameThenEmptyLine ==
    Finished /\ RawArguments = <<>> => stdout = << argv[1] \o <<NL>>, <<NL>> >>

C8_Witness ==
    /\ Finished
    /\ RawArguments = <<>>
    /\ Len(stdout) = 2
    /\ stdout[2] = <<NL>>

HadPreviousRun == prevArgv # <<>>

\* C9 (as claimed): two runs with identical argument lists write the same
\* output.
C9_SameArgsSameOutput ==
    Finished /\ HadPreviousRun /\ Tail(prevArgv) = RawArguments =>
        stdout = prevOut

\* C9 (amended): two runs with identical argument lists write the same
\* formatted line, and the same whole output when they also run under the
\* same invocation name.
C9_SameArgvSameOutput ==
    Finished /\ HadPreviousRun /\ Tail(prevArgv) = RawArguments =>
        /\ stdout[2] = prevOut[2]
        /\ (prevArgv[1] = argv[1] => stdout = prevOut)

C9_Witness ==
    /\ Finished
    /\ HadPreviousRun
    /\ Len(RawArguments) = 3
    /\ Tail(prevArgv) = RawArguments
    /\ prevArgv[1] = argv[1]
    /\ stdout = prevOut

C9_WitnessOtherName ==
    /\ Finished
    /\ HadPreviousRun
    /\ Tail(prevArgv) = RawArguments
    /\ prevArgv[1] # argv[1]
    /\ stdout[2] = prevOut[2]

FlagsFirst(as) == SelectSeq(as, BeginsWithDash) \o SelectSeq(as, NotBeginsWithDash)
FlagsLast(as) == SelectSeq(as, NotBeginsWithDash) \o SelectSeq(as, BeginsWithDash)

\* C10: no token beginning with '-' is among the echoed values, wherever
\* it stands, and the formatted write is the one of the same arguments
\* with all flags moved before the values, or all after them.
C10_FlagsAtEveryPosition ==
    /\ (Classified => \A i \in 1..Len(args) : ~BeginsWithDash(args[i]))
    /\ (Classified => args = SelectSeq(RawArguments, NotBeginsWithDash))
    /\ (Finished =>
           /\ stdout[2] = FormattedLine(FlagsFirst(RawArguments))
           /\ stdout[2] = FormattedLine(FlagsLast(RawArguments)))

C10_Witness ==
    /\ Finished
    /\ RawArguments = <<<<"a">>, <<"-", "-", "s">>, <<"b">>, FlagS>>
    /\ stdout[2] = <<"a", "b", NL>>
====
